---- MODULE Spec2Model ----
(***************************************************************************)
(* Verification model of the restrained-ensemble plugin of gmxapi:         *)
(* plugin::EnsemblePotential (constructor, callback, calculate) and the    *)
(* BlurToGrid functor, from                                                *)
(*   src/python_packaging/sample_restraint/src/cpp/ensemblepotential.{h,cpp}*)
(*                                                                         *)
(* Representation.  A double is a fixed-point integer.  Times, distances,  *)
(* bin widths, sigma and k are whole numbers of their unit; densities      *)
(* (windows, histogram, experimental) and forces count units of 1/Scale.   *)
(* A gmx::Vector is a triple.  A Matrix<double>(1, n) is the sequence of   *)
(* its n cells.  Sequences are 1-based: C++ index i is TLA+ index i + 1.   *)
(***************************************************************************)
EXTENDS Integers, Sequences, FiniteSets, TLC

\* ------------------------------------------------------------------ bounds
MaxTime == 4
MaxCalls == 3
MaxBins == 2
MaxSamples == 2
MaxPeriod == 2
MaxWindows == 2
GridBins == 21
MaxBlurSamples == 3
MaxBlurCalls == 2

\* One unit of a density or a force is 1/Scale.
Scale == 10000

Replicas == {1, 2}

VARIABLES
    ndebug,   \* the build: TRUE when NDEBUG is defined and assert() expands to nothing
    members,  \* the replicas of this run
    state,    \* state[r]: the state_ member of replica r's EnsemblePotential
    fault,    \* fault[r]: "ok", or how the last callback of replica r ended the run
    obs,      \* obs[r]: what the host and the reduction facility saw of replica r
    output,   \* output[r]: the value the last call on replica r returned
    clock,    \* an ensemble run: the simulation step the hosts have reached, and its time
    args,     \* args[r]: the <<v, v0>> of the evaluate that returned output[r], when recorded
    grid,     \* a grid handed to a BlurToGrid functor, and what was done with it
    pc,       \* pc[r]: where replica r's master thread is inside callback, with its locals
    context,  \* a PySimpleContext, and what its initialize() calls returned
    tpr,      \* TPR file objects, a parameters object, and what the calls on them did
    builder   \* a RestraintBuilder<EnsemblePotential>: params_ and parameter_dict_

vars == <<ndebug, members, state, fault, obs, output, clock, args, grid, pc,
          context, tpr, builder>>

\* ------------------------------------------------------------- arithmetic
Abs(x) == IF x < 0 THEN -x ELSE x

\* Division of doubles, in fixed point: the quotient rounded toward zero.
Div(a, b) ==
    IF (a >= 0) = (b > 0) THEN Abs(a) \div Abs(b) ELSE -(Abs(a) \div Abs(b))

\* sqrt of a non-negative number (exact on the squares the inputs produce).
Sqrt(n) == CHOOSE r \in 0..n : r * r <= n /\ n < (r + 1) * (r + 1)

RECURSIVE SumSeq(_)
SumSeq(q) == IF q = <<>> THEN 0 ELSE Head(q) + SumSeq(Tail(q))

\* gmx::Vector operations used by callback and calculate.
VSub(a, b) == <<a[1] - b[1], a[2] - b[2], a[3] - b[3]>>
dot(a, b) == a[1] * b[1] + a[2] * b[2] + a[3] * b[3]
norm(a) == Sqrt(dot(a, a))

\* Matrix<double>(1, n): n cells, zero filled.
Matrix(n) == [i \in 1..n |-> 0]

\* Scale * exp(-q/8) for q = 0, 1, 2, ...; below half a unit from q = 80 on.
ExpTable ==
    << 10000, 8825, 7788, 6873, 6065, 5353, 4724, 4169, 3679, 3247,
       2865, 2528, 2231, 1969, 1738, 1534, 1353, 1194, 1054, 930,
       821, 724, 639, 564, 498, 439, 388, 342, 302, 266,
       235, 208, 183, 162, 143, 126, 111, 98, 87, 76,
       67, 59, 52, 46, 41, 36, 32, 28, 25, 22,
       19, 17, 15, 13, 12, 10, 9, 8, 7, 6,
       6, 5, 4, 4, 3, 3, 3, 2, 2, 2,
       2, 1, 1, 1, 1, 1, 1, 1, 1, 1 >>

\* Scale * exp(-x^2 / (2 sigma^2)), sigma > 0.
ExpNeg(x, sigma) ==
    LET q == (4 * x * x) \div (sigma * sigma)
    IN  IF q < Len(ExpTable) THEN ExpTable[q + 1] ELSE 0

\* Scale * sqrt(2 pi)
Sqrt2Pi == 25066

\* The functor's call with the sample count left out of the normalization.
Blur_unnormalised(low, binWidth, sigma, samples, g) ==
    LET bin_x(i) == low + i * binWidth
        term(i, j) ==
            Div(ExpNeg(bin_x(i) - samples[j], sigma) * Scale, Sqrt2Pi * sigma)
    IN  [c \in 1..Len(g) |->
            SumSeq([j \in 1..Len(samples) |-> term(c - 1, j)])]

\* The functor's call adding to what the grid holds.
Blur_accumulate(low, binWidth, sigma, samples, g) ==
    LET bin_x(i) == low + i * binWidth
        term(i, j) ==
            Div(ExpNeg(bin_x(i) - samples[j], sigma) * Scale,
                Len(samples) * Sqrt2Pi * sigma)
    IN  [c \in 1..Len(g) |->
            g[c] + SumSeq([j \in 1..Len(samples) |-> term(c - 1, j)])]

\* BlurToGrid(low, gridSpacing, sigma)(samples, &g): the grid g after the call.
\* For each of its grid->size() cells, bin_value starts at 0, takes the sum,
\* over the samples, of normalization * exp(-(bin_x - sample)^2 / (2 sigma^2)),
\* and is assigned to the cell; no sample, no term.
Blur(low, binWidth, sigma, samples, g) ==
    LET nbins == Len(g)
        num_samples == Len(samples)
        bin_x(i) == low + i * binWidth
        term(i, j) ==
            Div(ExpNeg(bin_x(i) - samples[j], sigma) * Scale,
                num_samples * Sqrt2Pi * sigma)
    IN  [c \in 1..nbins |->
            0 + SumSeq([j \in 1..num_samples |-> term(c - 1, j)])]

\* The functor applied to a new Matrix<double>(1, nbins), as callback does.
BlurToGrid(low, binWidth, sigma, samples, nbins) ==
    Blur(low, binWidth, sigma, samples, Matrix(nbins))

\* ------------------------------------------------------------ construction
\* The parameter records a caller passes.  The constructor checks nothing, so
\* it also accepts the ones the data model calls invalid: binWidth = 0,
\* sigma = 0, minDist >= maxDist, an experimental histogram not nBins long.
\* Experimental histograms: flat at zero, or rising by 1200 units a bin.
ExperimentalSlopes == {0, 1200}

Histograms ==
    {[i \in 1..n |-> c * i] : n \in 1..MaxBins, c \in ExperimentalSlopes}

Params ==
    [nBins : 1..MaxBins, binWidth : {1}, minDist : {2}, maxDist : {4},
     experimental : Histograms,
     nSamples : 1..MaxSamples, samplePeriod : 1..MaxPeriod,
     nWindows : 1..MaxWindows, k : {2}, sigma : {1}]

\* The configurations of the data model.
IsValid(p) ==
    /\ p.binWidth > 0
    /\ p.sigma > 0
    /\ p.nBins = Len(p.experimental)
    /\ p.minDist < p.maxDist

ValidParams == {p \in Params : IsValid(p)}

\* A configuration with one thing wrong.
InvalidParams ==
    UNION {{[p EXCEPT !.binWidth = 0],
            [p EXCEPT !.sigma = 0],
            [p EXCEPT !.maxDist = p.minDist],
            [p EXCEPT !.experimental = SubSeq(@, 1, Len(@) - 1)],
            [p EXCEPT !.experimental = Append(@, 0)]} : p \in ValidParams}

AnyParams == ValidParams \cup InvalidParams

\* EnsemblePotential::EnsemblePotential: the state_ of a new restraint.  The
\* members the constructor does not assign keep their default member
\* initializers: currentSample, currentWindow, windowStartTime are 0,
\* distanceSamples and windows are empty vectors.
EnsemblePotential(p) ==
    [nBins |-> p.nBins, binWidth |-> p.binWidth,
     minDist |-> p.minDist, maxDist |-> p.maxDist,
     experimental |-> p.experimental,
     nSamples |-> p.nSamples, samplePeriod |-> p.samplePeriod,
     nWindows |-> p.nWindows, k |-> p.k, sigma |-> p.sigma,
     histogram |-> Matrix(p.nBins),
     currentSample |-> 0,
     nextSampleTime |-> p.samplePeriod,
     distanceSamples |-> <<>>,
     currentWindow |-> 0,
     windowStartTime |-> 0,
     nextWindowUpdateTime |-> p.nSamples * p.samplePeriod,
     windows |-> <<>>]

\* ---------------------------------------------------------------- callback
\* SampleDue only once the sample time is past.
SampleDue_strict(s, t) == t > s.nextSampleTime

\* if (t >= state_.nextSampleTime)
SampleDue(s, t) == t >= s.nextSampleTime

\* distanceSamples[currentSample] names an element of the vector.
SampleInBounds(s) == s.currentSample < Len(s.distanceSamples)


\* StoreSample skipping the sample of a zero distance.
StoreSample_skipZero(s, R) ==
    IF R = 0 THEN s
    ELSE [s EXCEPT
            !.currentSample = @ + 1,
            !.nextSampleTime = (s.currentSample + 1 + 1) * s.samplePeriod + s.windowStartTime]

\* StoreSample counting the next sample time from time 0, not from the start
\* of the window.
StoreSample_fromStart(s, R) ==
    [s EXCEPT
        !.currentSample = @ + 1,
        !.nextSampleTime = (s.currentSample + 1 + 1) * s.samplePeriod]

\* distanceSamples[currentSample++] = R; nextSampleTime = ...
\* A write outside the vector that does not end the process lands in memory
\* the vector does not own: size() and the elements begin()..end() are as before.
StoreSample(s, R) ==
    [s EXCEPT
        !.distanceSamples =
            IF SampleInBounds(s) THEN [@ EXCEPT ![s.currentSample + 1] = R] ELSE @,
        !.currentSample = @ + 1,
        !.nextSampleTime = (s.currentSample + 1 + 1) * s.samplePeriod + s.windowStartTime]

\* if (t >= state_.nextWindowUpdateTime)
RotationDue(s, t) == t >= s.nextWindowUpdateTime

\* A window of the ring: the cells of its Matrix, labelled with the number of
\* the rotation that allocated it (the identity of the Matrix object).
Window(cells, n) == [cells |-> cells, rotation |-> n]


\* RecycleOldest erasing the newest window instead of the oldest.
RecycleOldest_newest(s) ==
    IF Len(s.windows) = s.nWindows
    THEN [windows |-> SubSeq(s.windows, 1, Len(s.windows) - 1),
          temp_window |-> s.windows[Len(s.windows)].cells]
    ELSE [windows |-> s.windows, temp_window |-> Matrix(s.nBins)]

\* Lines 186-199: temp_window takes the oldest window's buffer when the ring is
\* full, and that window is erased; else temp_window is a new matrix.
RecycleOldest(s) ==
    IF Len(s.windows) = s.nWindows
    THEN [windows |-> Tail(s.windows), temp_window |-> Head(s.windows).cells]
    ELSE [windows |-> s.windows, temp_window |-> Matrix(s.nBins)]

\* The three assertions before the blur (lines 205-207).
AssertionsHold(s, new_window) ==
    /\ Len(new_window) > 0
    /\ Len(s.distanceSamples) = s.nSamples
    /\ s.currentSample = s.nSamples

\* ensemble.reduce(send, &receive): receive after the call, the elementwise sum
\* of send and of what the other members of the ensemble sent.
Reduce(send, others) == [i \in 1..Len(send) |-> send[i] + others[i]]

\* PushedWindow with one more column than the blurred window.
PushedWindow_wider(new_window, temp_window) == Append(new_window, 0)

\* Line 224: the matrix appended to the ring.
PushedWindow(new_window, temp_window) == new_window


\* Deviation with the capacity of the ring as the divisor.
Deviation_byCapacity(s, w, i) == Div(w.cells[i] - s.experimental[i], s.nWindows)

\* Lines 227-237.  histogram.at(i) += (window[i] - experimental.at(i)) / windows.size()
Deviation(s, w, i) == Div(w.cells[i] - s.experimental[i], Len(s.windows))

UpdateHistogram(s) ==
    [s EXCEPT !.histogram =
        [i \in 1..Len(@) |->
            SumSeq([j \in 1..Len(s.windows) |-> Deviation(s, s.windows[j], i)])]]

\* experimental.at(i) throws std::out_of_range for a bin past its end.
HistogramThrows(s) == Len(s.experimental) < s.nBins

\* The histogram when the throw leaves the loops: zeroed, then the first
\* window's bins accumulated up to the end of experimental.
PartialHistogram(s) ==
    [s EXCEPT !.histogram =
        [i \in 1..Len(@) |->
            IF i <= Len(s.experimental) THEN Deviation(s, s.windows[1], i) ELSE 0]]

\* ResetWindow leaving the sample count as it is.
ResetWindow_keepSample(s, t) ==
    [s EXCEPT
        !.windowStartTime = t,
        !.nextWindowUpdateTime = s.nSamples * s.samplePeriod + t,
        !.currentWindow = @ + 1,
        !.nextSampleTime = t + s.samplePeriod]

\* ResetWindow starting the markers of the new window from time 0.
ResetWindow_fromZero(s, t) ==
    [s EXCEPT
        !.windowStartTime = t,
        !.nextWindowUpdateTime = s.nSamples * s.samplePeriod,
        !.currentWindow = @ + 1,
        !.currentSample = 0,
        !.nextSampleTime = s.samplePeriod]

\* Lines 244-251.
ResetWindow(s, t) ==
    [s EXCEPT
        !.windowStartTime = t,
        !.nextWindowUpdateTime = s.nSamples * s.samplePeriod + t,
        !.currentWindow = @ + 1,
        !.currentSample = 0,
        !.nextSampleTime = t + s.samplePeriod]


\* ReductionCalls with the handle taken and the reduction made on every call.
ReductionCalls_everyCall(rotates) == <<"getHandle", "reduce">>

\* The calls callback makes on resources, in order: getHandle and reduce when
\* it rotates (lines 216 and 220), none otherwise.
ReductionCalls(rotates) ==
    IF rotates THEN <<"getHandle", "reduce">> ELSE <<>>


\* OnReductionFailure catching the exception and finishing the rotation with
\* the local window.
OnReductionFailure_fallback(s, new_window, t, what) ==
    [s |-> ResetWindow(
               UpdateHistogram(
                   [s EXCEPT !.windows =
                       Append(@, Window(new_window, s.currentWindow + 1))]), t),
     end |-> "ok"]

\* getHandle or reduce throws (what: "handle_failed" or "reduce_failed"): the
\* exception leaves callback from the call, nothing catches it.  s is the
\* restraint at the call.
OnReductionFailure(s, new_window, t, what) == [s |-> s, end |-> what]

\* EnsemblePotential::callback(v, v0, t, resources) on the state s, in the
\* build nd, with what the environment decides in env:
\*   env.ub      what an out-of-bounds sample write does: "segv" ends the
\*               process, "stray" writes outside the vector and goes on;
\*   env.handle  getHandle succeeds;  env.reduce  reduce succeeds;
\*   env.others  what the other ensemble members sent to this reduction.
\* The result: s, the state after the call; end, how the call ended ("ok": it
\* returned); and what happened in it:
\*   sampled  the sample statement ran;  entered  the rotation branch was taken;
\*   partial  it was taken with currentSample != nSamples;
\*   calls    the calls made on resources;  failed  one of them threw;
\*   sent, receive, received   the input of reduce, its output matrix before
\*            the call and after it;
\*   rotated  the rotation branch ran to its end.
callback(s, v, v0, t, nd, env) ==
    LET rdiff == VSub(v, v0)
        R == norm(rdiff)
        sample == SampleDue(s, t)
        s1 == IF sample THEN StoreSample(s, R) ELSE s
        rotates == RotationDue(s1, t)
        rec == RecycleOldest(s1)
        s2 == [s1 EXCEPT !.windows = rec.windows]
        new_window ==
            BlurToGrid(0, s1.binWidth, s1.sigma, s1.distanceSamples, s1.nBins)
        temp_window == Reduce(new_window, env.others)
        s3 == [s2 EXCEPT !.windows =
                  Append(@, Window(PushedWindow(new_window, temp_window),
                                   s2.currentWindow + 1))]
        calls == ReductionCalls(rotates)
        none == [s |-> s, end |-> "ok", sampled |-> sample, entered |-> FALSE,
                 partial |-> FALSE, calls |-> <<>>, failed |-> FALSE,
                 sent |-> <<>>, receive |-> <<>>, received |-> <<>>,
                 rotated |-> FALSE]
        entered == [none EXCEPT !.s = s2, !.entered = TRUE,
                                !.partial = s1.currentSample # s1.nSamples]
        handle == [entered EXCEPT !.calls = SubSeq(calls, 1, 1)]
        reduce == [handle EXCEPT !.calls = calls, !.sent = new_window,
                                 !.receive = rec.temp_window]
        thrown(at, what) ==
            LET f == OnReductionFailure(s2, new_window, t, what)
            IN  [at EXCEPT !.s = f.s, !.end = f.end, !.failed = TRUE]
    IN  IF sample /\ ~SampleInBounds(s) /\ env.ub = "segv"
        THEN [none EXCEPT !.end = "segv"]
        ELSE IF ~rotates
        THEN [none EXCEPT !.s = s1, !.calls = calls]
        ELSE IF ~(nd \/ AssertionsHold(s1, new_window))
        THEN [entered EXCEPT !.end = "assert"]
        ELSE IF ~env.handle
        THEN thrown(handle, "handle_failed")
        ELSE IF ~(nd \/ Len(rec.temp_window) > 0)
        THEN [handle EXCEPT !.end = "assert"]
        ELSE IF ~env.reduce
        THEN thrown(reduce, "reduce_failed")
        ELSE IF HistogramThrows(s3)
        THEN [reduce EXCEPT !.s = PartialHistogram(s3), !.end = "out_of_range",
                            !.received = temp_window]
        ELSE [reduce EXCEPT !.s = ResetWindow(UpdateHistogram(s3), t),
                            !.received = temp_window, !.rotated = TRUE]

\* --------------------------------------------------------------- calculate
NaN == "NaN"

\* gmx::PotentialPointData output; the default-constructed value.
PotentialPointData == [force |-> <<0, 0, 0>>, energy |-> 0]


\* calculate recording the distance it was called with as a sample.
calculate_sampling(s, v, v0, t) ==
    [output |-> [force |-> <<0, 0, 0>>, energy |-> 0],
     state_ |-> StoreSample(s, norm(VSub(v, v0)))]

\* calculate pushing coincident sites apart along x, as if 0 < R < minDist.
calculate_pushAtZero(s, v, v0, t) ==
    [output |-> [PotentialPointData EXCEPT !.force =
                    IF norm(VSub(v, v0)) = 0
                    THEN <<s.k * s.minDist * Scale, 0, 0>> ELSE @],
     state_ |-> s]

\* calculate with the sign of the flat-bottom force reversed, and no other
\* force.
calculate_reversed(s, v, v0, t) ==
    LET rdiff == VSub(v, v0)
        R == norm(rdiff)
        f == IF R > s.maxDist THEN s.k * (R - s.maxDist) * Scale
             ELSE IF R < s.minDist THEN s.k * (R - s.minDist) * Scale
             ELSE 0
        magnitude == IF R = 0 THEN 0 ELSE Div(f, R)
    IN  [output |-> [PotentialPointData EXCEPT !.force =
                        <<rdiff[1] * magnitude, rdiff[2] * magnitude, rdiff[3] * magnitude>>],
         state_ |-> s]

\* calculate with a force that grows with the time of the call.
calculate_timed(s, v, v0, t) ==
    [output |-> [PotentialPointData EXCEPT !.force = <<t, 0, 0>>], state_ |-> s]

\* EnsemblePotential::calculate(v, v0, t): the value returned, and state_ after
\* the call (the function is not const; it assigns no member).
calculate(s, v, v0, t) ==
    LET rdiff == VSub(v, v0)
        R == norm(rdiff)
        numBins == Len(s.histogram)
        normConst == Sqrt2Pi * s.sigma * s.sigma * s.sigma
        x(n) == n * s.binWidth - R
        f_scal ==
            SumSeq([c \in 1..numBins |->
                Div(s.histogram[c] * ExpNeg(x(c - 1), s.sigma) * x(c - 1), normConst)])
        inside == ~(R > s.maxDist) /\ ~(R < s.minDist)
        f == IF R > s.maxDist THEN s.k * (s.maxDist - R) * Scale
             ELSE IF R < s.minDist THEN s.k * (s.minDist - R) * Scale
             ELSE -s.k * f_scal
        magnitude == Div(f, norm(rdiff))
        force ==
            IF R = 0 THEN PotentialPointData.force
            ELSE IF inside /\ s.sigma = 0 /\ numBins > 0 THEN <<NaN, NaN, NaN>>
            ELSE <<rdiff[1] * magnitude, rdiff[2] * magnitude, rdiff[3] * magnitude>>
    IN  [output |-> [PotentialPointData EXCEPT !.force = force], state_ |-> s]

\* ------------------------------------------------------------------ inputs
\* The site pairs <<v, v0>> the host passes: R = 0, 1, 3 and 5.
Sites ==
    { <<<<1, 1, 1>>, <<1, 1, 1>>>>, <<<<1, 0, 0>>, <<0, 0, 0>>>>,
      <<<<0, 3, 0>>, <<0, 0, 0>>>>, <<<<3, 0, 4>>, <<0, 0, 0>>>> }

Times == 0..MaxTime

\* What the other members of the ensemble send to a reduction: nothing, or a
\* density rising by 500 units a bin.
OthersSlopes == {0, 500}

Others(nbins) == {[i \in 1..nbins |-> c * i] : c \in OthersSlopes}

\* The decisions of the environment a callback(.., t, ..) on s consults: env.ub
\* when its sample write is out of bounds; if the process goes on and the call
\* rotates, env.handle; if getHandle succeeds, env.reduce; if reduce succeeds,
\* env.others.
Environments(s, t) ==
    LET none == CHOOSE o \in Others(s.nBins) : TRUE
        quiet == [ub |-> "stray", handle |-> TRUE, reduce |-> TRUE, others |-> none]
        segv == IF SampleDue(s, t) /\ ~SampleInBounds(s)
                THEN {[quiet EXCEPT !.ub = "segv"]} ELSE {}
    IN  IF RotationDue(s, t)
        THEN segv \cup {[quiet EXCEPT !.handle = FALSE], [quiet EXCEPT !.reduce = FALSE]}
                  \cup {[quiet EXCEPT !.others = o] : o \in Others(s.nBins)}
        ELSE segv \cup {quiet}

\* ------------------------------------------------------------------- state
\* output[r] before any call, and after a callback (which returns nothing): no
\* force vector.
NoOutput == [force |-> <<>>, energy |-> 0]

\* What has been observed of a replica since its construction:
\*   calls     callbacks invoked;  onGrid  call i was at time i * samplePeriod;
\*   samples   times the sample statement (line 172) ran;
\*   entered   callbacks that took the rotation branch (line 183);
\*   partial   the last callback took it with currentSample != nSamples;
\*   handles, reduces   calls of getHandle and of reduce;
\*   failures  calls of getHandle and of reduce that threw;
\*   sent, receive, received   the last reduce: its input, its output matrix
\*             before the call and after it;
\*   rotated   the last callback ran the rotation branch to its end.
NoObs ==
    [calls |-> 0, onGrid |-> TRUE, samples |-> 0, entered |-> 0,
     partial |-> FALSE, handles |-> 0, reduces |-> 0, failures |-> 0,
     sent |-> <<>>, receive |-> <<>>, received |-> <<>>, rotated |-> FALSE]

Count(q, x) == Cardinality({i \in 1..Len(q) : q[i] = x})

Observe(o, s, t, res) ==
    LET reduced == Count(res.calls, "reduce") > 0
    IN  [calls |-> o.calls + 1,
         onGrid |-> o.onGrid /\ t = (o.calls + 1) * s.samplePeriod,
         samples |-> o.samples + (IF res.sampled THEN 1 ELSE 0),
         entered |-> o.entered + (IF res.entered THEN 1 ELSE 0),
         partial |-> res.partial,
         handles |-> o.handles + Count(res.calls, "getHandle"),
         reduces |-> o.reduces + Count(res.calls, "reduce"),
         failures |-> o.failures + (IF res.failed THEN 1 ELSE 0),
         sent |-> IF reduced THEN res.sent ELSE o.sent,
         receive |-> IF reduced THEN res.receive ELSE o.receive,
         received |-> IF reduced THEN res.received ELSE o.received,
         rotated |-> res.rotated]

\* A replica that is not part of the run.
Absent == "absent"

\* Before an ensemble run has taken its first step.
NoClock == [step |-> 0, t |-> 0]

\* No recorded evaluate.
NoArgs == <<>>

\* No functor under test.
NoGrid == [calls |-> 0]

\* The master thread of a replica is not inside callback.
Idle ==
    [at |-> "idle", t |-> 0, new_window |-> <<>>, others |-> <<>>,
     receive |-> <<>>, pre |-> <<>>, sampled |-> FALSE, partial |-> FALSE,
     done |-> 0]

Start(build, who, params) ==
    /\ ndebug = build
    /\ members = who
    /\ state = [r \in Replicas |-> IF r \in who THEN EnsemblePotential(params[r]) ELSE Absent]
    /\ fault = [r \in Replicas |-> IF r \in who THEN "ok" ELSE Absent]
    /\ obs = [r \in Replicas |-> IF r \in who THEN NoObs ELSE Absent]
    /\ output = [r \in Replicas |-> IF r \in who THEN NoOutput ELSE Absent]
    /\ clock = NoClock
    /\ args = [r \in Replicas |-> IF r \in who THEN NoArgs ELSE Absent]
    /\ grid = NoGrid
    /\ pc = [r \in Replicas |-> Idle]
    /\ context = Absent
    /\ tpr = Absent
    /\ builder = Absent

\* One restraint of one replica, constructed from a configuration of the data
\* model, in either build.
Init ==
    \E build \in BOOLEAN, p \in ValidParams :
        Start(build, {1}, [r \in Replicas |-> p])

\* The host of replica r calls update(v, v0, t), which calls callback.
CallbackAt(r, t) ==
    /\ r \in members
    /\ fault[r] = "ok"
    /\ obs[r].calls < MaxCalls
    /\ \E site \in Sites, env \in Environments(state[r], t) :
        LET res == callback(state[r], site[1], site[2], t, ndebug, env)
        IN  /\ state' = [state EXCEPT ![r] = res.s]
            /\ fault' = [fault EXCEPT ![r] = res.end]
            /\ obs' = [obs EXCEPT ![r] = Observe(@, state[r], t, res)]
            /\ output' = [output EXCEPT ![r] = NoOutput]
            /\ args' = [args EXCEPT ![r] = NoArgs]
    /\ UNCHANGED <<ndebug, members, clock, grid, pc, context, tpr, builder>>

\* A callback at any time.
Callback(r) == \E t \in Times : CallbackAt(r, t)

\* The host calls evaluate(r1, r2, t), which calls calculate.
Calculate(r) ==
    /\ r \in members
    /\ fault[r] = "ok"
    /\ \E t \in Times, site \in Sites :
        LET res == calculate(state[r], site[1], site[2], t)
        IN  /\ state' = [state EXCEPT ![r] = res.state_]
            /\ output' = [output EXCEPT ![r] = res.output]
    /\ UNCHANGED <<ndebug, members, fault, obs, clock, args, grid, pc, context,
                   tpr, builder>>

Next == \E r \in Replicas : Callback(r) \/ Calculate(r)

Spec == Init /\ [][Next]_vars

\* One restraint constructed from any parameter record.
InitAny ==
    \E build \in BOOLEAN, p \in AnyParams :
        Start(build, {1}, [r \in Replicas |-> p])

SpecAny == InitAny /\ [][Next]_vars

\* The host calls evaluate(r1, r2, t), and the site pair is recorded with the
\* value returned.
Evaluate(r) ==
    /\ r \in members
    /\ fault[r] = "ok"
    /\ \E t \in Times, site \in Sites :
        LET res == calculate(state[r], site[1], site[2], t)
        IN  /\ state' = [state EXCEPT ![r] = res.state_]
            /\ output' = [output EXCEPT ![r] = res.output]
            /\ args' = [args EXCEPT ![r] = site]
    /\ UNCHANGED <<ndebug, members, fault, obs, clock, grid, pc, context, tpr,
                   builder>>

NextCalculate == \E r \in Replicas : Callback(r) \/ Evaluate(r)

\* One restraint constructed from any parameter record, its evaluations recorded.
SpecCalculate == InitAny /\ [][NextCalculate]_vars

\* One restraint constructed from a configuration of the data model, its
\* evaluations recorded.
SpecEvaluate == Init /\ [][NextCalculate]_vars

\* A BlurToGrid functor on its own.  The grids: GridBins cells from low, of
\* width 1 with sigma 1 or 2, or of width 2 with sigma 2; one to
\* MaxBlurSamples samples within one cell width of the middle of the grid, at
\* least four sigma from either end; the grid zero filled or holding other
\* values when the functor is first called.
BlurShapes ==
    {[binWidth |-> 1, sigma |-> 1], [binWidth |-> 1, sigma |-> 2],
     [binWidth |-> 2, sigma |-> 2]}

BlurInputs ==
    {[low |-> low, binWidth |-> shape.binWidth, sigma |-> shape.sigma,
      samples |-> [j \in 1..n |->
                      low + ((GridBins - 1) \div 2 + offset[j]) * shape.binWidth],
      before |-> [c \in 1..GridBins |-> fill],
      cells |-> [c \in 1..GridBins |-> fill],
      calls |-> 0] :
        low \in {0, 1}, shape \in BlurShapes, fill \in {0, 777},
        n \in 1..MaxBlurSamples, offset \in [1..MaxBlurSamples -> {-1, 0, 1}]}

InitBlur ==
    /\ ndebug = FALSE
    /\ members = {}
    /\ state = [r \in Replicas |-> Absent]
    /\ fault = [r \in Replicas |-> Absent]
    /\ obs = [r \in Replicas |-> Absent]
    /\ output = [r \in Replicas |-> Absent]
    /\ args = [r \in Replicas |-> Absent]
    /\ clock = NoClock
    /\ grid \in BlurInputs
    /\ pc = [r \in Replicas |-> Idle]
    /\ context = Absent
    /\ tpr = Absent
    /\ builder = Absent

\* blur(samples, &grid)
BlurCall ==
    /\ grid.calls \in 0..(MaxBlurCalls - 1)
    /\ grid' = [grid EXCEPT
                   !.cells = Blur(grid.low, grid.binWidth, grid.sigma, grid.samples, @),
                   !.calls = @ + 1]
    /\ UNCHANGED <<ndebug, members, state, fault, obs, output, clock, args, pc,
                   context, tpr, builder>>

NextBlur == BlurCall

SpecBlur == InitBlur /\ [][NextBlur]_vars

\* An ensemble of two replicas in the same build, with the same samplePeriod
\* and nSamples, and the same nBins (reduce adds matrices of one size).
InitEnsemble ==
    \E build \in BOOLEAN, p \in ValidParams, q \in ValidParams :
        /\ p.samplePeriod = q.samplePeriod
        /\ p.nSamples = q.nSamples
        /\ p.nBins = q.nBins
        /\ Start(build, Replicas, [r \in Replicas |-> IF r = 1 THEN p ELSE q])

\* The simulations take their next step, to a time t: every replica whose run
\* goes on has made the callback of the step before.
Advance ==
    /\ members = Replicas
    /\ clock.step < MaxCalls
    /\ \E r \in members : fault[r] = "ok"
    /\ \A r \in members : fault[r] = "ok" => obs[r].calls = clock.step
    /\ \E t \in Times : clock' = [step |-> clock.step + 1, t |-> t]
    /\ UNCHANGED <<ndebug, members, state, fault, obs, output, args, grid, pc,
                   context, tpr, builder>>

\* The host of replica r makes the callback of the current step.
StepCallback(r) ==
    /\ obs[r].calls < clock.step
    /\ CallbackAt(r, clock.t)

\* calculate is left out of the ensemble run: it assigns no member.
NextEnsemble == Advance \/ \E r \in Replicas : StepCallback(r)

SpecEnsemble == InitEnsemble /\ [][NextEnsemble]_vars

\* The simulation of one replica takes its next step, to a time no earlier
\* than the last and no more than samplePeriod later (from time 0 at the
\* start): the host has made the callback of the step before.
AdvanceRegular ==
    /\ clock.step < MaxCalls
    /\ \E r \in members : fault[r] = "ok"
    /\ \A r \in members : fault[r] = "ok" => obs[r].calls = clock.step
    /\ \E t \in Times :
        /\ t >= clock.t
        /\ \A r \in members : t - clock.t <= state[r].samplePeriod
        /\ clock' = [step |-> clock.step + 1, t |-> t]
    /\ UNCHANGED <<ndebug, members, state, fault, obs, output, args, grid, pc,
                   context, tpr, builder>>

NextRegular == AdvanceRegular \/ \E r \in members : StepCallback(r)

\* One restraint whose host calls it back at regular times.
SpecRegular == Init /\ [][NextRegular]_vars

\* ------------------------------------------------- callback, step by step
\* A callback that rotates, taken apart at the points where another thread or
\* another replica can see it: the call of reduce (line 220), the append to
\* the ring (line 224), the zeroing of the histogram (lines 227-230), each
\* window accumulated (lines 231-237), and the reset of the markers (lines
\* 244-251).

\* The restraint when reduce is called: the sample stored (lines 170-176), the
\* oldest window of a full ring erased (lines 189-194).
AtReduce(s, v, v0, t) ==
    LET s1 == IF SampleDue(s, t) THEN StoreSample(s, norm(VSub(v, v0))) ELSE s
    IN  [s1 EXCEPT !.windows = RecycleOldest(s1).windows]

\* What a callback on s at time t can meet: Environments(s, t), or with a
\* reliable reduction facility those in which getHandle and reduce succeed.
Facility(s, t, reliable) ==
    {env \in Environments(s, t) : reliable => (env.handle /\ env.reduce)}

\* The host of replica r calls update(v, v0, t).  A callback that does not
\* rotate, or that ends before reduce returns, is one step; one that rotates
\* runs up to the call of reduce and waits there.
BeginCallback(r, t, reliable) ==
    /\ r \in members
    /\ fault[r] = "ok"
    /\ pc[r].at = "idle"
    /\ obs[r].calls < MaxCalls
    /\ \E site \in Sites, env \in Facility(state[r], t, reliable) :
        LET res == callback(state[r], site[1], site[2], t, ndebug, env)
        IN  IF res.rotated
            THEN /\ state' = [state EXCEPT ![r] = AtReduce(@, site[1], site[2], t)]
                 /\ pc' = [pc EXCEPT ![r] =
                               [at |-> "reduce", t |-> t, new_window |-> res.sent,
                                others |-> env.others, receive |-> res.receive,
                                pre |-> state[r].histogram, sampled |-> res.sampled,
                                partial |-> res.partial, done |-> 0]]
                 /\ UNCHANGED <<fault, obs>>
            ELSE /\ state' = [state EXCEPT ![r] = res.s]
                 /\ fault' = [fault EXCEPT ![r] = res.end]
                 /\ obs' = [obs EXCEPT ![r] = Observe(@, state[r], t, res)]
                 /\ pc' = pc
    /\ output' = [output EXCEPT ![r] = NoOutput]
    /\ args' = [args EXCEPT ![r] = NoArgs]
    /\ UNCHANGED <<ndebug, members, clock, grid, context, tpr, builder>>

\* Replica q has entered its n-th reduction.
InReduction(q, n) ==
    \/ obs[q].reduces >= n
    \/ pc[q].at # "idle" /\ obs[q].reduces + 1 >= n

\* reduce returns to replica r, once every member of the ensemble has entered
\* the same reduction; line 224 appends the window to the ring.
ReduceReturns(r) ==
    /\ r \in members
    /\ pc[r].at = "reduce"
    /\ \A q \in members : InReduction(q, obs[r].reduces + 1)
    /\ LET temp_window == Reduce(pc[r].new_window, pc[r].others)
       IN  state' = [state EXCEPT ![r].windows =
                        Append(@, Window(PushedWindow(pc[r].new_window, temp_window),
                                         state[r].currentWindow + 1))]
    /\ pc' = [pc EXCEPT ![r].at = "pushed"]
    /\ UNCHANGED <<ndebug, members, fault, obs, output, clock, args, grid,
                   context, tpr, builder>>

\* Lines 227-230: every bin of the histogram is set to 0.
ZeroHistogram(r) ==
    /\ r \in members
    /\ pc[r].at = "pushed"
    /\ state' = [state EXCEPT ![r].histogram = [i \in 1..Len(@) |-> 0]]
    /\ pc' = [pc EXCEPT ![r].at = "accumulate", ![r].done = 0]
    /\ UNCHANGED <<ndebug, members, fault, obs, output, clock, args, grid,
                   context, tpr, builder>>

\* Lines 231-237, one turn of the outer loop: the next window of the ring is
\* added to the histogram.
AccumulateWindow(r) ==
    /\ r \in members
    /\ pc[r].at = "accumulate"
    /\ pc[r].done < Len(state[r].windows)
    /\ state' = [state EXCEPT ![r].histogram =
                     [i \in 1..Len(@) |->
                         @[i] + Deviation(state[r], state[r].windows[pc[r].done + 1], i)]]
    /\ pc' = [pc EXCEPT ![r].done = @ + 1]
    /\ UNCHANGED <<ndebug, members, fault, obs, output, clock, args, grid,
                   context, tpr, builder>>

\* Lines 244-251, and the return of callback.
FinishRotation(r) ==
    /\ r \in members
    /\ pc[r].at = "accumulate"
    /\ pc[r].done = Len(state[r].windows)
    /\ state' = [state EXCEPT ![r] = ResetWindow(@, pc[r].t)]
    /\ obs' = [obs EXCEPT ![r] =
                  Observe(@, state[r], pc[r].t,
                          [sampled |-> pc[r].sampled, entered |-> TRUE,
                           partial |-> pc[r].partial, calls |-> ReductionCalls(TRUE),
                           failed |-> FALSE, sent |-> pc[r].new_window,
                           receive |-> pc[r].receive,
                           received |-> Reduce(pc[r].new_window, pc[r].others),
                           rotated |-> TRUE])]
    /\ pc' = [pc EXCEPT ![r] = Idle]
    /\ UNCHANGED <<ndebug, members, fault, output, clock, args, grid, context,
                   tpr, builder>>

\* The steps of replica r's master thread inside a rotation.
Rotation(r) ==
    ReduceReturns(r) \/ ZeroHistogram(r) \/ AccumulateWindow(r) \/ FinishRotation(r)

\* One restraint; evaluate is called from other threads at any moment of a
\* callback: nothing in Restraint (restraint.h lines 69-85) orders the two.
NextThreads ==
    \E r \in Replicas :
        \/ \E t \in Times : BeginCallback(r, t, FALSE)
        \/ Rotation(r)
        \/ Evaluate(r)

SpecThreads == Init /\ [][NextThreads]_vars

\* The step of replica r in an ensemble run: the callback of the current step
\* of the simulation, and what follows inside it.
StepReplica(r) ==
    \/ obs[r].calls < clock.step /\ BeginCallback(r, clock.t, TRUE)
    \/ Rotation(r)

NextLockstep == Advance \/ \E r \in Replicas : StepReplica(r)

\* An ensemble whose reduction facility is reliable, each replica's process
\* being scheduled again and again.
SpecLockstep ==
    /\ InitEnsemble
    /\ [][NextLockstep]_vars
    /\ \A r \in Replicas : WF_vars(StepReplica(r))

\* ---------------------------------------------------------------- gmx.core
\* The Python extension module of the gmx package: PySimpleContext
\* (context.cpp) and the TPR file interface (tprfile.cpp).

\* PySimpleContext::PySimpleContext()
PySimpleContext == [is_initialized_ |-> FALSE]

\* PySimpleContext::initialize() on the context c: the object after the call
\* and the pointer returned.
initialize(c) ==
    IF c.is_initialized_
    THEN [self |-> c, returned |-> "nullptr"]
    ELSE [self |-> c, returned |-> "manager"]

\* A 64-bit integer in two's complement, as four 16-bit limbs, the most
\* significant first.  A 32-bit int is held sign-extended in the same form.
Limb == 65536

Zero == <<0, 0, 0, 0>>

\* static_cast<int>(value) of an int64_t, and its implicit conversion on
\* assignment to an int: the low 32 bits, sign-extended.
Narrow(v) ==
    LET sign == IF v[3] >= Limb \div 2 THEN Limb - 1 ELSE 0
    IN  <<sign, sign, v[3], v[4]>>

\* 0, 1, 1000, INT_MAX, -1, INT_MAX + 1, 2^32.
Int64Values ==
    {Zero, <<0, 0, 0, 1>>, <<0, 0, 0, 1000>>, <<0, 0, Limb \div 2 - 1, Limb - 1>>,
     <<Limb - 1, Limb - 1, Limb - 1, Limb - 1>>, <<0, 0, Limb \div 2, 0>>,
     <<0, 1, 0, 0>>}

\* Keys of int64Params(), of int32Params() and of float64Params().
Int64Keys == {"nsteps", "init-step"}

Int32Keys == {"nstlist"}

FloatKeys == {"dt"}

Keys == Int64Keys \cup Int32Keys \cup FloatKeys

\* No TprFile: a null shared_ptr.
Null == 0

MaxTprFiles == 2

TprFiles == 1..MaxTprFiles

\* The integer members of the t_inputrec of a TprFile just read.
t_inputrec(f) ==
    [key \in Int64Keys \cup Int32Keys |->
        IF key = "nsteps" THEN <<0, 0, 0, 1000>>
        ELSE IF key = "nstlist" THEN <<0, 0, 0, f>>
        ELSE Zero]

\* GmxMdParamsImpl(tprfile): the keys of each map, with the values of the
\* file's input record, or empty and unset without a file.
GmxMdParamsImpl(files, source) ==
    LET entry(key) == IF source # Null
                      THEN [first |-> files[source][key], second |-> TRUE]
                      ELSE [first |-> Zero, second |-> FALSE]
    IN  [source_ |-> source,
         int64Params_ |-> [key \in Int64Keys |-> entry(key)],
         intParams_ |-> [key \in Int32Keys |-> entry(key)]]

\* GmxMdParamsImpl::set(key, const int64_t& value) on the parameters p, with
\* the TprFile objects files: both after the call, and what was thrown.
set(p, files, key, value) ==
    LET through(v) == IF p.source_ # Null
                      THEN [files EXCEPT ![p.source_][key] = v]
                      ELSE files
    IN  IF key \in DOMAIN p.int64Params_
        THEN [params |-> [p EXCEPT !.int64Params_[key] =
                                      [first |-> value, second |-> TRUE]],
              files |-> through(value), threw |-> "none"]
        ELSE IF key \in DOMAIN p.intParams_
        THEN [params |-> [p EXCEPT !.intParams_[key] =
                                      [first |-> Narrow(value), second |-> TRUE]],
              files |-> through(Narrow(value)), threw |-> "none"]
        ELSE [params |-> p, files |-> files, threw |-> "KeyError"]

\* setParam(params, name, int64_t value)
setParam(p, files, name, value) == set(p, files, name, value)

\* GmxMdParamsImpl::extract<int> and extract<int64_t> on one of the maps.
extract(map, key) ==
    IF key \notin DOMAIN map \/ ~map[key].second
    THEN [threw |-> "KeyError", value |-> Zero]
    ELSE [threw |-> "none", value |-> map[key].first]

\* extractParam(params, name, int64_t): the int map first, then the int64 map.
extractParam(p, name) ==
    LET as_int == extract(p.intParams_, name)
    IN  IF as_int.threw = "none" THEN as_int ELSE extract(p.int64Params_, name)

\* writeTprFile(filename, params, structure, state, topology) in the build nd,
\* the sources given by the TprFile each refers to; ub is what the use of a
\* null TprFile does where nothing stops it.  The result: what was thrown or
\* how the call ended, and the files written, each with the TprFile it was
\* written from and the input record in it (unspecified, here zeros, when
\* written through a null pointer).
writeTprFile(filename, p, structure, state_, topology, files, disk, nd, ub) ==
    IF \/ structure # state_
       \/ state_ # topology
       \/ topology # p.source_
       \/ p.source_ # structure
    THEN [threw |-> "ValueError", disk |-> disk]
    ELSE IF p.source_ = Null /\ ~nd
    THEN [threw |-> "assert", disk |-> disk]
    ELSE IF p.source_ = Null
    THEN IF ub = "segv"
         THEN [threw |-> "segv", disk |-> disk]
         ELSE [threw |-> "none",
               disk |-> disk \cup {[name |-> filename, from |-> Null,
                                     record |-> [key \in Int64Keys \cup Int32Keys |-> Zero]]}]
    ELSE [threw |-> "none",
          disk |-> disk \cup {[name |-> filename, from |-> p.source_,
                                record |-> files[p.source_]]}]

\* The calls made on the module so far are below the bound.
MaxCoreCalls == 3

\* No call yet.
NoCall ==
    [op |-> "none", key |-> "", value |-> Zero, sources |-> <<>>,
     threw |-> "none", returned |-> Zero]

\* A process that has imported gmx.core: a context, the TprFile objects read,
\* a parameters object without a source, and nothing written.
InitCore ==
    /\ ndebug \in BOOLEAN
    /\ members = {}
    /\ state = [r \in Replicas |-> Absent]
    /\ fault = [r \in Replicas |-> Absent]
    /\ obs = [r \in Replicas |-> Absent]
    /\ output = [r \in Replicas |-> Absent]
    /\ args = [r \in Replicas |-> Absent]
    /\ clock = NoClock
    /\ grid = NoGrid
    /\ pc = [r \in Replicas |-> Idle]
    /\ builder = Absent
    /\ context = [self |-> PySimpleContext, returned |-> <<>>]
    /\ LET files == [f \in TprFiles |-> t_inputrec(f)]
       IN  tpr = [files |-> files, params |-> GmxMdParamsImpl(files, Null),
                  disk |-> {}, calls |-> 0, call |-> NoCall]

\* context.initialize()
Initialize ==
    /\ Len(context.returned) < MaxCoreCalls
    /\ LET res == initialize(context.self)
       IN  context' = [self |-> res.self, returned |-> Append(context.returned, res.returned)]
    /\ UNCHANGED <<ndebug, members, state, fault, obs, output, clock, args, grid,
                   pc, tpr, builder>>

\* params = getMdParams(handle) on the handle of a file read.
GetMdParams ==
    /\ tpr.calls < MaxCoreCalls
    /\ \E f \in TprFiles :
        tpr' = [tpr EXCEPT !.params = GmxMdParamsImpl(tpr.files, f),
                           !.calls = @ + 1,
                           !.call = [NoCall EXCEPT !.op = "getMdParams"]]
    /\ UNCHANGED <<ndebug, members, state, fault, obs, output, clock, args, grid,
                   pc, context, builder>>

\* setParam(&params, key, value)
SetParam ==
    /\ tpr.calls < MaxCoreCalls
    /\ \E key \in Keys, value \in Int64Values :
        LET res == setParam(tpr.params, tpr.files, key, value)
        IN  tpr' = [tpr EXCEPT !.params = res.params,
                               !.files = res.files,
                               !.calls = @ + 1,
                               !.call = [NoCall EXCEPT !.op = "setParam", !.key = key,
                                                       !.value = value,
                                                       !.threw = res.threw]]
    /\ UNCHANGED <<ndebug, members, state, fault, obs, output, clock, args, grid,
                   pc, context, builder>>

\* extractParam(params, key, int64_t())
ExtractParam ==
    /\ tpr.calls < MaxCoreCalls
    /\ \E key \in Keys :
        LET res == extractParam(tpr.params, key)
        IN  tpr' = [tpr EXCEPT !.calls = @ + 1,
                               !.call = [NoCall EXCEPT !.op = "extractParam", !.key = key,
                                                       !.threw = res.threw,
                                                       !.returned = res.value]]
    /\ UNCHANGED <<ndebug, members, state, fault, obs, output, clock, args, grid,
                   pc, context, builder>>

\* writeTprFile("out.tpr", params, structure, state, topology), the three
\* sources got from any handles, null ones included.
WriteTprFile ==
    /\ tpr.calls < MaxCoreCalls
    /\ \E structure, state_, topology \in TprFiles \cup {Null}, ub \in {"segv", "stray"} :
        LET res == writeTprFile("out.tpr", tpr.params, structure, state_, topology,
                                tpr.files, tpr.disk, ndebug, ub)
        IN  tpr' = [tpr EXCEPT !.disk = res.disk,
                               !.calls = @ + 1,
                               !.call = [NoCall EXCEPT
                                            !.op = "writeTprFile",
                                            !.sources = <<tpr.params.source_, structure,
                                                          state_, topology>>,
                                            !.threw = res.threw]]
    /\ UNCHANGED <<ndebug, members, state, fault, obs, output, clock, args, grid,
                   pc, context, builder>>

NextCore == Initialize \/ GetMdParams \/ SetParam \/ ExtractParam \/ WriteTprFile

SpecCore == InitCore /\ [][NextCore]_vars

\* ------------------------------------------------------- RestraintBuilder
\* ensemble_input_param_type{}: every input at its default member initializer.
ensemble_input_param_type ==
    [nBins |-> 0, binWidth |-> 0, minDist |-> 0, maxDist |-> 0,
     experimental |-> <<>>, nSamples |-> 0, samplePeriod |-> 0, nWindows |-> 0,
     k |-> 0, sigma |-> 0]

\* The params dictionary of a work element that describes the configuration p.
ParameterDict(p) ==
    [nbins |-> p.nBins, binWidth |-> p.binWidth, min_dist |-> p.minDist,
     max_dist |-> p.maxDist, experimental |-> p.experimental,
     nsamples |-> p.nSamples, sample_period |-> p.samplePeriod,
     nwindows |-> p.nWindows, k |-> p.k, sigma |-> p.sigma]

\* createEnsembleBuilder: the inputs registered with add_input, in order, each
\* the name of a dictionary entry and the member its setter assigns.
createEnsembleBuilder ==
    <<[name |-> "nbins", data_ptr |-> "nBins"],
      [name |-> "binWidth", data_ptr |-> "binWidth"],
      [name |-> "min_dist", data_ptr |-> "minDist"],
      [name |-> "max_dist", data_ptr |-> "maxDist"],
      [name |-> "experimental", data_ptr |-> "experimental"],
      [name |-> "nsamples", data_ptr |-> "nSamples"],
      [name |-> "sample_period", data_ptr |-> "samplePeriod"],
      [name |-> "nwindows", data_ptr |-> "nWindows"],
      [name |-> "k", data_ptr |-> "sigma"],
      [name |-> "sigma", data_ptr |-> "sigma"]>>

\* The setter add_input makes: p->*data_ptr = py::cast<T>(d[name]).
add_input(input, p, d) == [p EXCEPT ![input.data_ptr] = d[input.name]]

\* The loop of build over setters_, from the i-th on.
RECURSIVE RunSetters(_, _, _, _)
RunSetters(setters_, i, p, d) ==
    IF i > Len(setters_) THEN p
    ELSE RunSetters(setters_, i + 1, add_input(setters_[i], p, d), d)

\* A builder made by createEnsembleBuilder from a work element, in a process
\* of either build; no restraint exists yet.
InitBuild ==
    /\ ndebug \in BOOLEAN
    /\ members = {}
    /\ state = [r \in Replicas |-> Absent]
    /\ fault = [r \in Replicas |-> Absent]
    /\ obs = [r \in Replicas |-> Absent]
    /\ output = [r \in Replicas |-> Absent]
    /\ args = [r \in Replicas |-> Absent]
    /\ clock = NoClock
    /\ grid = NoGrid
    /\ pc = [r \in Replicas |-> Idle]
    /\ context = Absent
    /\ tpr = Absent
    /\ \E p \in ValidParams :
        builder = [parameter_dict_ |-> ParameterDict(p),
                   params_ |-> ensemble_input_param_type,
                   setters_ |-> createEnsembleBuilder,
                   subscriber_ |-> FALSE, built |-> FALSE]

\* builder.addSubscriber(subscriber)
AddSubscriber ==
    /\ ~builder.subscriber_
    /\ builder' = [builder EXCEPT !.subscriber_ = TRUE]
    /\ UNCHANGED <<ndebug, members, state, fault, obs, output, clock, args, grid,
                   pc, context, tpr>>

\* builder.build(graph): nothing without a subscriber; else the setters run
\* and the restraint is created from params_.
Build ==
    /\ ~builder.built
    /\ IF ~builder.subscriber_
       THEN UNCHANGED <<members, state, fault, obs, output, args, builder>>
       ELSE LET params_ == RunSetters(builder.setters_, 1, builder.params_,
                                      builder.parameter_dict_)
            IN  /\ builder' = [builder EXCEPT !.params_ = params_, !.built = TRUE]
                /\ members' = {1}
                /\ state' = [state EXCEPT ![1] = EnsemblePotential(params_)]
                /\ fault' = [fault EXCEPT ![1] = "ok"]
                /\ obs' = [obs EXCEPT ![1] = NoObs]
                /\ output' = [output EXCEPT ![1] = NoOutput]
                /\ args' = [args EXCEPT ![1] = NoArgs]
    /\ UNCHANGED <<ndebug, clock, grid, pc, context, tpr>>

NextBuild == AddSubscriber \/ Build \/ \E r \in Replicas : Callback(r) \/ Calculate(r)

SpecBuild == InitBuild /\ [][NextBuild]_vars

\* ------------------------------------------------------------------ claims
Alive(r) == r \in members /\ fault[r] = "ok"

ReductionFailures == {"handle_failed", "reduce_failed"}

Min(a, b) == IF a < b THEN a ELSE b

\* C1: on a new restraint called at the times P, 2P, ..., N*P (P = samplePeriod,
\* N = nSamples) every call returns and takes one sample, the first N - 1 calls
\* do not rotate, and the N-th call rotates once, leaving currentSample = 0 and
\* windowStartTime = N*P.  (A reduction that throws is not the claim's case.)
C1_GridSchedule ==
    \A r \in members :
        LET s == state[r]
            o == obs[r]
        IN  (o.onGrid /\ o.calls <= s.nSamples /\ fault[r] \notin ReductionFailures) =>
                /\ fault[r] = "ok"
                /\ o.samples = o.calls
                /\ o.calls < s.nSamples =>
                       /\ o.entered = 0
                       /\ s.currentWindow = 0
                       /\ s.currentSample = o.calls
                /\ o.calls = s.nSamples =>
                       /\ o.entered = 1
                       /\ o.rotated
                       /\ s.currentWindow = 1
                       /\ s.currentSample = 0
                       /\ s.windowStartTime = s.nSamples * s.samplePeriod

\* C2: the window a rotation appends to the ring is the matrix reduce filled,
\* the sum over the ensemble.
C2_RingHoldsReduced ==
    \A r \in members :
        (Alive(r) /\ obs[r].rotated) =>
            state[r].windows[Len(state[r].windows)].cells = obs[r].received

\* C3: once a rotation has completed, histogram[i] is the mean over the windows
\* in the ring of window[i] - experimental[i], the divisor being the number of
\* windows in the ring (each of the n quotients is rounded to a unit, so n times
\* the histogram is within n * n units of the total).
C3_HistogramIsMean ==
    \A r \in members :
        LET s == state[r]
            n == Len(s.windows)
            total(i) == SumSeq([j \in 1..n |-> s.windows[j].cells[i] - s.experimental[i]])
        IN  (Alive(r) /\ s.currentWindow > 0) =>
                /\ n > 0
                /\ \A i \in 1..s.nBins : Abs(n * s.histogram[i] - total(i)) < n * n

\* C3's case: a rotation has completed while the ring is still filling, on a
\* restraint whose experimental histogram is not zero.
C3_Witness ==
    \E r \in members :
        /\ Alive(r) /\ obs[r].rotated
        /\ Len(state[r].windows) < state[r].nWindows
        /\ state[r].histogram[1] # 0

\* C4: after k completed rotations the ring holds the windows of the last
\* min(k, nWindows) rotations, oldest first, and it never holds more than
\* nWindows windows.
C4_RingHoldsLatest ==
    \A r \in members :
        LET s == state[r]
            k == s.currentWindow
            m == Min(k, s.nWindows)
        IN  /\ Len(s.windows) <= s.nWindows
            /\ Alive(r) =>
                   /\ Len(s.windows) = m
                   /\ \A j \in 1..m : s.windows[j].rotation = k - m + j

\* C4's case: a rotation has evicted the oldest window of a full ring that held
\* more than one window.
C4_Witness ==
    \E r \in members :
        /\ Alive(r) /\ obs[r].rotated
        /\ state[r].nWindows > 1
        /\ state[r].currentWindow > state[r].nWindows

\* C5: a calculate leaves every field of the restraint's state as it was (a step
\* that leaves a returned force in output[r] is a calculate on r: a callback
\* leaves NoOutput); a step that changes the state is a callback.
C5_CalculateFrame ==
    [][\A r \in members :
          /\ output'[r] # NoOutput => state'[r] = state[r]
          /\ state'[r] # state[r] => obs'[r].calls = obs[r].calls + 1]_vars

\* C5's case: calculate has returned a force from a histogram that a rotation
\* has filled.
C5_Witness ==
    \E r \in members :
        /\ Alive(r) /\ output[r] # NoOutput
        /\ output[r].force # <<0, 0, 0>>
        /\ state[r].histogram[1] # 0

\* C6: a callback that completes a rotation takes one handle and calls reduce
\* once, on a 1 x nBins input and a 1 x nBins output; a callback that does not
\* take the rotation branch takes no handle and calls no reduce.
C6_OneReductionPerRotation ==
    [][\A r \in members :
          LET handles == obs'[r].handles - obs[r].handles
              reduces == obs'[r].reduces - obs[r].reduces
          IN  /\ state'[r].currentWindow # state[r].currentWindow =>
                     /\ handles = 1 /\ reduces = 1
                     /\ Len(obs'[r].sent) = state[r].nBins
                     /\ Len(obs'[r].receive) = state[r].nBins
              /\ obs'[r].entered = obs[r].entered => (handles = 0 /\ reduces = 0)]_vars

\* C6's case: of the callbacks made, one has rotated and reduced and another
\* has not rotated.
C6_Witness ==
    \E r \in members :
        /\ Alive(r) /\ obs[r].rotated
        /\ obs[r].reduces = 1
        /\ obs[r].calls > obs[r].entered

\* C7: when getHandle or reduce throws in a callback, the callback ends with
\* that failure, no window has been added to the ring, histogram and the
\* rotation count are as before the call, and getHandle and reduce have each
\* been called at most once in it.
C7_ReductionFailureAborts ==
    [][\A r \in members :
          obs'[r].failures # obs[r].failures =>
              /\ fault'[r] \in ReductionFailures
              /\ state'[r].histogram = state[r].histogram
              /\ state'[r].currentWindow = state[r].currentWindow
              /\ \A j \in 1..Len(state'[r].windows) :
                     state'[r].windows[j].rotation <= state[r].currentWindow
              /\ obs'[r].handles - obs[r].handles = 1
              /\ obs'[r].reduces - obs[r].reduces <= 1]_vars

\* C7's case: reduce has thrown in a rotation that followed a completed one.
C7_Witness ==
    \E r \in members :
        /\ fault[r] = "reduce_failed"
        /\ state[r].currentWindow > 0
        /\ state[r].histogram[1] # 0

\* C8: a restraint whose parameters are invalid (binWidth <= 0, sigma <= 0,
\* nBins # the length of experimental, minDist >= maxDist) is never the object
\* of a callback or of a calculate.
C8_InvalidNeverRuns ==
    \A r \in members :
        ~IsValid(state[r]) => (obs[r].calls = 0 /\ output[r] = NoOutput)

\* C9: a callback that takes the rotation branch with currentSample # nSamples
\* ends in the assertion failure and completes no rotation.  (A reduction that
\* throws is not the claim's case.)
C9_PartialBufferIsFatal ==
    \A r \in members :
        (obs[r].partial /\ fault[r] \notin ReductionFailures) =>
            (fault[r] = "assert" /\ ~obs[r].rotated)

\* C10: replicas with the same samplePeriod and nSamples that have been called
\* at the same times (as many callbacks each, at the times of the clock), and
\* whose runs go on, have entered and completed the
\* same number of rotations, made the same number of reductions and taken the
\* same number of samples, and their sample counts and time markers are equal.
C10_Lockstep ==
    \A r1 \in members, r2 \in members :
        LET a == state[r1]
            b == state[r2]
        IN  (Alive(r1) /\ Alive(r2) /\ obs[r1].calls = obs[r2].calls
             /\ a.samplePeriod = b.samplePeriod /\ a.nSamples = b.nSamples) =>
                /\ a.currentWindow = b.currentWindow
                /\ obs[r1].entered = obs[r2].entered
                /\ obs[r1].reduces = obs[r2].reduces
                /\ obs[r1].samples = obs[r2].samples
                /\ a.currentSample = b.currentSample
                /\ a.nextSampleTime = b.nextSampleTime
                /\ a.nextWindowUpdateTime = b.nextWindowUpdateTime
                /\ a.windowStartTime = b.windowStartTime

\* C10's case: two replicas have rotated in step although their reductions
\* returned different sums and their histograms differ.
C10_Witness ==
    /\ members = Replicas
    /\ \A r \in Replicas : Alive(r) /\ obs[r].rotated /\ obs[r].calls = clock.step
    /\ obs[1].received # obs[2].received
    /\ state[1].histogram # state[2].histogram
    /\ state[1].currentWindow > 1

\* The distance of a recorded site pair.
Distance(a) == norm(VSub(a[1], a[2]))

\* C11: an evaluate with v = v0 returns the zero force (and zero energy), and
\* the run goes on, in every state callbacks lead to and for every parameter
\* record, the invalid ones included.
C11_ZeroDistance ==
    \A r \in members :
        (args[r] # NoArgs /\ args[r][1] = args[r][2]) =>
            /\ output[r].force = <<0, 0, 0>>
            /\ output[r].energy = 0
            /\ fault[r] = "ok"

\* C11's case: v = v0 on a restraint built with sigma = 0 whose histogram is
\* not zero, after a rotation.
C11_Witness ==
    /\ args[1] # NoArgs /\ args[1][1] = args[1][2]
    /\ obs[1].rotated
    /\ \E i \in 1..Len(state[1].histogram) : state[1].histogram[i] # 0
    /\ state[1].sigma = 0

\* C12: outside the flat bottom a recorded evaluate returned (v - v0)/R * f with
\* f = k (maxDist - R) above maxDist and f = k (minDist - R) below minDist: the
\* force is (v - v0) times f / R, its component along (v - v0)/R is f up to
\* the rounding of the division, it points toward v0 above maxDist and away
\* from it below minDist; none of this reads histogram.
C12_FlatBottom ==
    \A r \in members :
        args[r] # NoArgs =>
            LET s == state[r]
                rdiff == VSub(args[r][1], args[r][2])
                R == Distance(args[r])
                force == output[r].force
                Is(f) ==
                    /\ force = <<rdiff[1] * Div(f, R), rdiff[2] * Div(f, R),
                                 rdiff[3] * Div(f, R)>>
                    /\ Abs(dot(force, rdiff) - f * R) < R * R
            IN  /\ (s.k > 0 /\ R # 0 /\ R > s.maxDist) =>
                       /\ Is(s.k * (s.maxDist - R) * Scale)
                       /\ dot(force, rdiff) < 0
                /\ (s.k > 0 /\ R # 0 /\ ~(R > s.maxDist) /\ R < s.minDist) =>
                       /\ Is(s.k * (s.minDist - R) * Scale)
                       /\ dot(force, rdiff) > 0

\* C12's case: an evaluate at R > maxDist on a restraint that has rotated and
\* whose histogram is not zero.
C12_Witness ==
    /\ args[1] # NoArgs /\ Distance(args[1]) > state[1].maxDist
    /\ IsValid(state[1])
    /\ obs[1].rotated
    /\ \E i \in 1..Len(state[1].histogram) : state[1].histogram[i] # 0
    /\ output[1].force # <<0, 0, 0>>

\* C13: after every call currentSample is between 0 and nSamples, and a
\* callback that takes a sample writes it at an index (the currentSample it
\* found) below nSamples.
C13_SampleCountBounded ==
    [][\A r \in members :
        /\ state'[r].currentSample \in 0..state'[r].nSamples
        /\ obs'[r].samples # obs[r].samples =>
               state[r].currentSample < state[r].nSamples]_vars

\* C13's case: a second window is being filled: more samples have been taken
\* than one window holds, a rotation lies behind and the count is running again.
C13_Witness ==
    /\ Alive(1)
    /\ obs[1].samples > state[1].nSamples
    /\ state[1].currentWindow >= 1
    /\ state[1].currentSample > 0

\* C14: no call lowers nextSampleTime or nextWindowUpdateTime, at whatever
\* times, in whatever order, the callbacks come.
C14_MarkersNeverDecrease ==
    [][\A r \in members :
        /\ state'[r].nextSampleTime >= state[r].nextSampleTime
        /\ state'[r].nextWindowUpdateTime >= state[r].nextWindowUpdateTime]_vars

\* C14's case: a rotation that came later than it was due, then a callback
\* that did not rotate, with a sample taken in the new window.
C14_Witness ==
    /\ Alive(1)
    /\ state[1].windowStartTime > state[1].nSamples * state[1].samplePeriod
    /\ obs[1].calls >= 2
    /\ ~obs[1].rotated
    /\ state[1].currentSample > 0

\* C15: in every state histogram has nBins elements and every window of the
\* ring has nBins columns.
C15_Sizes ==
    \A r \in members :
        /\ Len(state[r].histogram) = state[r].nBins
        /\ \A j \in 1..Len(state[r].windows) :
               Len(state[r].windows[j].cells) = state[r].nBins

\* C15's case: the ring is full of windows of more than one bin, the oldest
\* one recycled at least once, and a calculate has followed.
C15_Witness ==
    /\ Alive(1)
    /\ state[1].nBins > 1
    /\ Len(state[1].windows) = state[1].nWindows
    /\ state[1].currentWindow > state[1].nWindows
    /\ output[1] # NoOutput

\* The distances the site pairs of the host give.
Distances == {Distance(site) : site \in Sites}

\* C16: after a completed rotation the newest window is the blur (low = 0,
\* binWidth, sigma) of nSamples recorded distances, and with nWindows = 1 and
\* experimental all zero histogram equals that window.  (Stated for some list
\* of nSamples distances the host passed: what the claim says of the very list
\* recorded implies it.)
C16_WindowIsBlurOfSamples ==
    \A r \in members :
        (Alive(r) /\ obs[r].rotated) =>
            LET s == state[r]
                window == s.windows[Len(s.windows)].cells
            IN  /\ \E samples \in [1..s.nSamples -> Distances] :
                       window = BlurToGrid(0, s.binWidth, s.sigma, samples, s.nBins)
                /\ (s.nWindows = 1 /\ s.experimental = Matrix(s.nBins)) =>
                       s.histogram = window

\* C17: what calculate returns for a site pair is the same at every t, and the
\* same before and after any call that leaves histogram as it was (another
\* calculate, a callback that does not rotate); a recorded evaluate returned
\* that value.
C17_CalculateIsPure ==
    /\ [](\A r \in members : \A site \in Sites, t \in Times :
            /\ calculate(state[r], site[1], site[2], t).output
                  = calculate(state[r], site[1], site[2], 0).output
            /\ args[r] = site => output[r] = calculate(state[r], site[1], site[2], t).output)
    /\ [][\A r \in members :
            state'[r].histogram = state[r].histogram =>
                \A site \in Sites :
                    calculate(state'[r], site[1], site[2], 0).output
                        = calculate(state[r], site[1], site[2], 0).output]_vars

\* C17's case: a restraint with a histogram that is not zero has taken a sample
\* in a callback that did not rotate, and an evaluate inside the flat bottom
\* has followed, at a distance where the histogram force is not zero.
C17_Witness ==
    /\ Alive(1)
    /\ IsValid(state[1])
    /\ state[1].currentWindow >= 1
    /\ state[1].currentSample > 0
    /\ ~obs[1].rotated
    /\ args[1] # NoArgs
    /\ ~(Distance(args[1]) > state[1].maxDist)
    /\ ~(Distance(args[1]) < state[1].minDist)
    /\ output[1].force # <<0, 0, 0>>

\* C18: after any number of calls on the same samples the grid is what one
\* call on a zero-filled grid of that length gives: every cell is overwritten,
\* nothing of the grid's earlier contents (other values, or the functor's own
\* output) is left in it.
C18_BlurOverwrites ==
    (grid # NoGrid /\ grid.calls >= 1) =>
        grid.cells = Blur(grid.low, grid.binWidth, grid.sigma, grid.samples,
                          Matrix(Len(grid.before)))

\* C18's case: the functor has been called twice on a grid that held other
\* values, the second time on its own output, and the grid is not zero.
C18_Witness ==
    /\ grid # NoGrid
    /\ grid.calls = 2
    /\ grid.before # Matrix(Len(grid.before))
    /\ grid.cells # Matrix(Len(grid.cells))

\* One hundredth of the unit mass.
Tolerance == Scale \div 100

\* C19: for a non-empty sample list blurred onto a grid that is fine and wide
\* enough (BlurInputs), the cells times binWidth sum to 1 within Tolerance,
\* whatever the number of samples.
C19_BlurMass ==
    (grid # NoGrid /\ grid.calls >= 1 /\ Len(grid.samples) > 0) =>
        Abs(SumSeq(grid.cells) * grid.binWidth - Scale) <= Tolerance

\* C19's case: the largest number of samples, not all equal, on the coarser grid.
C19_Witness ==
    /\ grid # NoGrid
    /\ grid.calls >= 1
    /\ Len(grid.samples) = MaxBlurSamples
    /\ grid.samples[1] # grid.samples[2]
    /\ grid.binWidth = 2

\* C20: whenever a rotation has blurred distanceSamples (the call went on to
\* getHandle), the vector holds exactly nSamples elements, and every sample
\* write was inside the vector.
C20_BufferHoldsSamples ==
    [][\A r \in members :
        /\ obs'[r].handles # obs[r].handles =>
               Len(state'[r].distanceSamples) = state'[r].nSamples
        /\ obs'[r].samples # obs[r].samples => SampleInBounds(state[r])]_vars

\* C21: a callback in which both the sample and the rotation are due (and no
\* reduction call throws) takes the sample, then completes the rotation, and
\* the distance it stored, at the index it found in currentSample, is an
\* element of the vector blurred into the window that call sent to reduce.
C21_SampleThenRotate ==
    [][\A r \in members :
        (/\ obs'[r].samples # obs[r].samples
         /\ obs'[r].entered # obs[r].entered
         /\ fault'[r] \notin ReductionFailures) =>
            LET blurred == state'[r].distanceSamples
                i == state[r].currentSample + 1
            IN  /\ obs'[r].rotated
                /\ i <= Len(blurred)
                /\ blurred[i] \in Distances
                /\ obs'[r].sent =
                       BlurToGrid(0, state[r].binWidth, state[r].sigma, blurred,
                                  state[r].nBins)]_vars

\* C22: in an ensemble of replicas with the same samplePeriod and nSamples,
\* called back at the same times, with a reduction that returns once every
\* replica has entered it and with each replica's steps weakly fair, a replica
\* that is inside callback, waiting in reduce or after it, eventually returns
\* from the callback.
C22_EveryCallbackReturns ==
    \A r \in Replicas : (pc[r].at # "idle") ~> (pc[r].at = "idle")

Seen(r, h, site) ==
    calculate([state[r] EXCEPT !.histogram = h], site[1], site[2], 0).output

\* C26: an evaluate that runs while the callback of the same restraint is
\* inside a rotation returns what calculate gives with the histogram as it was
\* before the rotation, or with the histogram the rotation ends with: never a
\* value computed from zeroed or partly accumulated bins.
C26_CalculateSeesWholeHistogram ==
    [][\A r \in members :
        (/\ pc[r].at # "idle"
         /\ pc' = pc
         /\ state' = state
         /\ args'[r] # NoArgs) =>
            LET post == IF pc[r].at = "reduce" THEN pc[r].pre
                        ELSE UpdateHistogram(state[r]).histogram
            IN  output'[r] \in {Seen(r, pc[r].pre, args'[r]), Seen(r, post, args'[r])}]_vars

\* C23: the first initialize() on a PySimpleContext returns a context manager
\* and every later call on the same object returns nullptr.
C23_InitializeOnce ==
    \A i \in 1..Len(context.returned) :
        context.returned[i] = IF i = 1 THEN "manager" ELSE "nullptr"

\* C24: writeTprFile writes the output file when, and only when, the
\* parameters, the structure source, the simulation state and the topology
\* source all refer to one TprFile object; in every other case it throws
\* ValueError and the files on disk are as before.
C24_WriteNeedsOneSource ==
    [][(tpr'.calls # tpr.calls /\ tpr'.call.op = "writeTprFile") =>
          LET from == tpr'.call.sources
              one == /\ from[1] \in TprFiles
                     /\ \A i \in 1..4 : from[i] = from[1]
          IN  IF one
              THEN /\ tpr'.call.threw = "none"
                   /\ [name |-> "out.tpr", from |-> from[1],
                       record |-> tpr.files[from[1]]] \in tpr'.disk
              ELSE /\ tpr'.call.threw = "ValueError"
                   /\ tpr'.disk = tpr.disk]_vars

\* C27: when reduce throws during a rotation, the callback leaves the ring of
\* windows, the histogram, windowStartTime, nextWindowUpdateTime and
\* currentWindow as they were before the call; a full ring still holds its
\* oldest window.
C27_FailedReduceChangesNothing ==
    [][\A r \in members :
        (fault[r] = "ok" /\ fault'[r] = "reduce_failed") =>
            /\ state'[r].windows = state[r].windows
            /\ state'[r].histogram = state[r].histogram
            /\ state'[r].windowStartTime = state[r].windowStartTime
            /\ state'[r].nextWindowUpdateTime = state[r].nextWindowUpdateTime
            /\ state'[r].currentWindow = state[r].currentWindow]_vars

\* C28: in every state reached from the constructor by callbacks,
\* nextWindowUpdateTime = windowStartTime + nSamples * samplePeriod and
\* nextSampleTime = windowStartTime + (currentSample + 1) * samplePeriod.
C28_MarkersAligned ==
    \A r \in members :
        LET s == state[r]
        IN  /\ s.nextWindowUpdateTime = s.windowStartTime + s.nSamples * s.samplePeriod
            /\ s.nextSampleTime = s.windowStartTime + (s.currentSample + 1) * s.samplePeriod

C28_Witness ==
    \E r \in members :
        /\ obs[r].rotated
        /\ state[r].windowStartTime > 0
        /\ obs[r].samples > state[r].nSamples

\* C29: after build has run the setters registered by createEnsembleBuilder,
\* each member of the parameter record holds the dictionary entry named for
\* it: nbins, binWidth, min_dist, max_dist, experimental, nsamples,
\* sample_period, nwindows, k and sigma.
C29_ParamsFromDictionary ==
    builder.built =>
        builder.params_ =
            [nBins |-> builder.parameter_dict_.nbins,
             binWidth |-> builder.parameter_dict_.binWidth,
             minDist |-> builder.parameter_dict_.min_dist,
             maxDist |-> builder.parameter_dict_.max_dist,
             experimental |-> builder.parameter_dict_.experimental,
             nSamples |-> builder.parameter_dict_.nsamples,
             samplePeriod |-> builder.parameter_dict_.sample_period,
             nWindows |-> builder.parameter_dict_.nwindows,
             k |-> builder.parameter_dict_.k,
             sigma |-> builder.parameter_dict_.sigma]

\* The keys with an integer type, backed by int64_t or by int.
IntegerKeys == Int64Keys \cup Int32Keys

\* C30: for every integer-typed key and every 64-bit value v, after
\* setParam(params, key, v) extractParam(params, key, int64_t) returns v, and
\* what it returns for every other key is as before the call.
C30_SetThenExtract ==
    [][(/\ tpr'.calls # tpr.calls
        /\ tpr'.call.op = "setParam"
        /\ tpr'.call.key \in IntegerKeys) =>
          /\ tpr'.call.threw = "none"
          /\ extractParam(tpr'.params, tpr'.call.key) =
                 [threw |-> "none", value |-> tpr'.call.value]
          /\ \A other \in Keys \ {tpr'.call.key} :
                 extractParam(tpr'.params, other) = extractParam(tpr.params, other)]_vars

====
